---- MODULE Spec2Model ----
(***************************************************************************)
(* A model of the gentle-jenkins-tools command line programs:              *)
(*   jen_build_history.py / jen_job_history.py  (build history report)     *)
(*   jen_compare.py                             (test failure comparison)  *)
(* Python values are modelled as follows.  An optional value (None, or a   *)
(* dictionary key that is absent) is the empty tuple, a present value v is *)
(* the one-element tuple <<v>>.  A call that may raise returns a record    *)
(* [exc, val]: exc is the name of the exception raised ("" when the call   *)
(* returns) and val the optional return value.  Strings are TLA+ strings.  *)
(***************************************************************************)
EXTENDS Integers, Sequences, FiniteSets, TLC

VARIABLES
    tool,           \* which program runs
    pc,             \* position of main() in the program
    stdout,         \* lines written by echo(), in order
    fetched,        \* URLs handed to requests.get, in order
    answers,        \* what requests.get did for each of them, in order
    exit_code,      \* None while running, else the process exit status
    exception,      \* "" or the name of the exception that left main()
    result,         \* history tools: what get_url returned
    build_history,  \* history tools: the list of BuildInfo
    table,          \* history tools: the rows tabulate printed (None: nothing printed)
    monochrome,     \* comparison tool: the -m flag
    left_xml,       \* comparison tool: the document parsed for the left branch
    right_xml,      \* comparison tool: the document parsed for the right branch
    left_fails,     \* comparison tool: left failure set
    right_fails,    \* comparison tool: right failure set
    fail_only_left, \* comparison tool: sorted(left_fails - right_fails)
    fail_only_right,\* comparison tool: sorted(right_fails - left_fails)
    branch_name,    \* normaliser harness: the current branch name
    branch_trail,   \* normaliser harness: the arguments of the calls made so far
    raw_duration,   \* duration harness: the duration in ms
    duration_cell   \* duration harness: the formatted duration (None: not yet formatted)

vars == <<tool, pc, stdout, fetched, answers, exit_code, exception, result, build_history,
          table, monochrome, left_xml, right_xml, left_fails, right_fails,
          fail_only_left, fail_only_right, branch_name, branch_trail,
          raw_duration, duration_cell>>

history_vars == <<result, build_history, table>>
compare_vars == <<monochrome, left_xml, right_xml, left_fails, right_fails,
                  fail_only_left, fail_only_right>>
harness_vars == <<branch_name, branch_trail, raw_duration, duration_cell>>

(***************************************************************************)
(* Bounds of the model.                                                    *)
(***************************************************************************)
MaxBuilds == 2          \* builds in one multi-build response
MaxCases == 2           \* elements in one test report document
MaxFragments == 4       \* fragments concatenated into a raw branch name
MaxApplications == 2    \* successive applications of the normaliser
MaxSeconds == 700       \* whole seconds of the durations formatted

(***************************************************************************)
(* Python values.                                                          *)
(***************************************************************************)
None == <<>>
Some(v) == <<v>>
Get(o) == o[1]
Opt(S) == {None} \cup {Some(v) : v \in S}

Ok(v) == [exc |-> "", val |-> Some(v)]
Raise(e) == [exc |-> e, val |-> None]

Min(a, b) == IF a < b THEN a ELSE b

\* '{:02}'.format(n) for a non-negative integer n
Pad2(n) == IF n < 10 THEN "0" \o ToString(n) ELSE ToString(n)

\* s.startswith(p) at 1-based position i: does p occur in s at i
OccursAt(s, p, i) ==
    /\ i >= 1
    /\ i + Len(p) - 1 <= Len(s)
    /\ SubSeq(s, i, i + Len(p) - 1) = p

\* str.replace(old, '', 1): only the first occurrence is removed
RECURSIVE RemoveFirst(_, _)
RemoveFirst(s, old) ==
    IF Len(s) < Len(old) THEN s
    ELSE IF OccursAt(s, old, 1) THEN SubSeq(s, Len(old) + 1, Len(s))
    ELSE SubSeq(s, 1, 1) \o RemoveFirst(SubSeq(s, 2, Len(s)), old)

\* str.replace(old, ''): remove the non-overlapping occurrences of old, scanning
\* from the left
RECURSIVE Remove(_, _)
Remove(s, old) ==
    IF Len(s) < Len(old) THEN s
    ELSE IF OccursAt(s, old, 1) THEN Remove(SubSeq(s, Len(old) + 1, Len(s)), old)
    ELSE SubSeq(s, 1, 1) \o Remove(SubSeq(s, 2, Len(s)), old)

HistoryTools == {"jen_build_history", "jen_job_history"}
CompareTool == "jen_compare"

(***************************************************************************)
(* URLs.  A URL is kept as its part before the query string and its query. *)
(***************************************************************************)
Base == "http://jenkins"

UrlStr(url) == url.path \o "?" \o url.query

get_job_api_url(base, job) ==
    [path |-> base \o "/job/" \o job \o "/api/json",
     query |-> "depth=1&pretty=true&tree=builds[number,building,timestamp,duration,estimatedDuration,actions[lastBuiltRevision[SHA1,branch[name]]]]"]

get_fails_api_url(base, branch) ==
    [path |-> base \o "/job/" \o branch \o "/testReport/api/xml",
     query |-> "xpath=//case[status='FAILED' or status='REGRESSION']&wrapper=suite&tree=suites[cases[status,className,name]]"]

\* http.client.responses, for the status codes the model's server answers with;
\* 520 is not a registered status and has no entry
responses ==
    (200 :> "OK") @@ (201 :> "Created") @@ (204 :> "No Content") @@
    (404 :> "Not Found") @@ (500 :> "Internal Server Error")

StatusCodes == {200, 201, 204, 404, 500, 520}

(***************************************************************************)
(* Branch names (both history tools).                                      *)
(***************************************************************************)
normalise_branch_name(name) ==
    LET a == Remove(name, "refs/")
        b == Remove(a, "remotes/")
        c == Remove(b, "origin/")
    IN IF c = "detached" THEN "** detached **" ELSE c

(***************************************************************************)
(* Build JSON objects and their extraction (both history tools).           *)
(***************************************************************************)
GitBuildData == "hudson.plugins.git.util.BuildData"

EmptyDict == [SHA1 |-> None, branch |-> None]

\* get_build_trigger_data: iterating build.get('actions') raises TypeError when
\* the key is absent (None is not iterable)
RECURSIVE FirstBuildData(_)
FirstBuildData(actions) ==
    IF actions = <<>> THEN EmptyDict
    ELSE IF Head(actions)._class = Some(GitBuildData)
         THEN IF Head(actions).lastBuiltRevision = None THEN EmptyDict
              ELSE Get(Head(actions).lastBuiltRevision)
    ELSE FirstBuildData(Tail(actions))

get_build_trigger_data(build) ==
    IF build.actions = None THEN Raise("TypeError")
    ELSE Ok(FirstBuildData(Get(build.actions)))

get_revision_and_branch_name(build) ==
    LET t == get_build_trigger_data(build) IN
    IF t.exc # "" THEN Raise(t.exc)
    ELSE LET trigger_data == Get(t.val)
             revision == trigger_data.SHA1
             missing == \/ trigger_data.branch = None                  \* KeyError
                        \/ Get(trigger_data.branch) = <<>>             \* IndexError
                        \/ Get(trigger_data.branch)[1].name = None     \* KeyError
             branch == IF missing THEN None
                       ELSE Some(normalise_branch_name(Get(Get(trigger_data.branch)[1].name)))
         IN Ok(<<revision, branch>>)

\* The proleptic Gregorian date of a day count since 1970-01-01 (what the
\* datetime module computes for a non-negative timestamp)
CivilFromDays(days) ==
    LET z == days + 719468
        era == z \div 146097
        doe == z - era * 146097
        yoe == (doe - doe \div 1460 + doe \div 36524 - doe \div 146096) \div 365
        doy == doe - (365 * yoe + yoe \div 4 - yoe \div 100)
        mp == (5 * doy + 2) \div 153
        d == doy - (153 * mp + 2) \div 5 + 1
        m == IF mp < 10 THEN mp + 3 ELSE mp - 9
        y == yoe + era * 400 + (IF m <= 2 THEN 1 ELSE 0)
    IN [year |-> y, month |-> m, day |-> d]

\* datetime.utcfromtimestamp(raw_timestamp / 1000).  An epoch millisecond count
\* is held as [secs, ms], standing for secs * 1000 + ms, because it exceeds the
\* model checker's integers.
parse_build_timestamp(raw_timestamp) ==
    LET date == CivilFromDays(raw_timestamp.secs \div 86400)
        rest == raw_timestamp.secs % 86400
    IN [year |-> date.year, month |-> date.month, day |-> date.day,
        hour |-> rest \div 3600, minute |-> (rest % 3600) \div 60,
        second |-> rest % 60, microsecond |-> raw_timestamp.ms * 1000]

\* parse_build taking the estimate for every zero duration, building or not
parse_build_any_zero(build) ==
    LET rb == get_revision_and_branch_name(build)
    IN IF rb.exc # "" THEN Raise(rb.exc)
       ELSE Ok([number |-> build.number, building |-> build.building,
                timestamp |-> IF build.timestamp = None THEN None
                              ELSE Some(parse_build_timestamp(Get(build.timestamp))),
                duration |-> IF build.duration = Some(0)
                             THEN build.estimatedDuration ELSE build.duration,
                revision |-> Get(rb.val)[1], branch_name |-> Get(rb.val)[2]])

parse_build(build) ==
    LET number == build.number
        building == build.building
        timestamp == IF build.timestamp = None THEN None
                     ELSE Some(parse_build_timestamp(Get(build.timestamp)))
        duration == IF building = Some(TRUE) /\ build.duration = Some(0)
                    THEN build.estimatedDuration
                    ELSE build.duration
        rb == get_revision_and_branch_name(build)
    IN IF rb.exc # "" THEN Raise(rb.exc)
       ELSE Ok([number |-> number, building |-> building, timestamp |-> timestamp,
                duration |-> duration, revision |-> Get(rb.val)[1],
                branch_name |-> Get(rb.val)[2]])

\* get_build_history after the fetch: [parse_build(build) for build in builds]
RECURSIVE ParseBuilds(_)
ParseBuilds(builds) ==
    IF builds = <<>> THEN Ok(<<>>)
    ELSE LET first == parse_build(Head(builds)) IN
         IF first.exc # "" THEN Raise(first.exc)
         ELSE LET rest == ParseBuilds(Tail(builds)) IN
              IF rest.exc # "" THEN Raise(rest.exc)
              ELSE Ok(<<Get(first.val)>> \o Get(rest.val))

\* bool(result) of a JSON object: an object with no key is falsy
Truthy(json) == json._class # None \/ json.builds # None

EmptyJson == [_class |-> None, builds |-> None]

get_build_history(fetch_result) ==
    IF ~Truthy(fetch_result) THEN Ok(<<>>)
    ELSE IF fetch_result.builds = None THEN Raise("KeyError")
    ELSE ParseBuilds(Get(fetch_result.builds))

(***************************************************************************)
(* The history report.                                                     *)
(***************************************************************************)
\* timestamp.strftime('%Y-%m-%d %H:%M:%S')
format_timestamp(timestamp) ==
    ToString(timestamp.year) \o "-" \o Pad2(timestamp.month) \o "-" \o
    Pad2(timestamp.day) \o " " \o Pad2(timestamp.hour) \o ":" \o
    Pad2(timestamp.minute) \o ":" \o Pad2(timestamp.second)

\* format_duration without the zero padding of the seconds
format_duration_unpadded(duration) ==
    LET seconds == duration \div 1000
    IN ToString(seconds \div 60) \o "m" \o ToString(seconds % 60) \o "s"

\* jen_build_history.py
format_duration(duration) ==
    LET seconds == duration \div 1000
        mins == seconds \div 60
        secs == seconds % 60
    IN ToString(mins) \o "m" \o Pad2(secs) \o "s"

\* revision[:8]
First8(revision) == SubSeq(revision, 1, Min(8, Len(revision)))

\* jen_build_history.py: '?' + duration_str raises TypeError when duration_str
\* is None
prep_for_tabulation(build) ==
    LET number_str == IF build.number # None THEN ToString(Get(build.number)) ELSE ""
        duration_str == IF build.duration # None
                        THEN Some(format_duration(Get(build.duration))) ELSE None
        is_building == build.building = Some(TRUE)
        timestamp_str == IF build.timestamp # None
                         THEN Some(format_timestamp(Get(build.timestamp))) ELSE None
        revision_str == IF build.revision # None /\ Get(build.revision) # ""
                        THEN Some(First8(Get(build.revision))) ELSE build.revision
    IN IF is_building /\ duration_str = None THEN Raise("TypeError")
       ELSE Ok(<<Some(IF is_building THEN "* " \o number_str ELSE number_str),
                 timestamp_str,
                 IF is_building THEN Some("?" \o Get(duration_str)) ELSE duration_str,
                 revision_str,
                 build.branch_name>>)

\* jen_job_history.py: BuildInfo.number_str
BuildInfo_number_str(self) ==
    IF self.number = None THEN None
    ELSE IF self.building = Some(TRUE) THEN Some("* " \o ToString(Get(self.number)))
    ELSE Some(ToString(Get(self.number)))

\* jen_job_history.py: BuildInfo.duration_str
BuildInfo_duration_str(self) ==
    IF self.duration = None THEN None
    ELSE LET seconds == Get(self.duration) \div 1000
             mins == seconds \div 60
             secs == seconds % 60
             str == ToString(mins) \o "m" \o Pad2(secs) \o "s"
         IN IF self.building = Some(TRUE) THEN Some("?" \o str) ELSE Some(str)

\* jen_job_history.py: BuildInfo.timestamp_str
BuildInfo_timestamp_str(self) ==
    IF self.timestamp = None THEN None
    ELSE Some(format_timestamp(Get(self.timestamp)))

\* jen_job_history.py: BuildInfo.tabulation_line
BuildInfo_tabulation_line(self) ==
    Ok(<<BuildInfo_number_str(self),
         BuildInfo_timestamp_str(self),
         BuildInfo_duration_str(self),
         IF self.revision # None /\ Get(self.revision) # ""
         THEN Some(First8(Get(self.revision))) ELSE None,
         self.branch_name>>)

\* tabulate prints a None cell as the empty string (its missingval default)
Cell(value) == IF value = None THEN "" ELSE Get(value)

RenderRow(line) == [i \in 1..Len(line) |-> Cell(line[i])]

\* report_build_history: the rows handed to tabulate, as printed; the first row
\* that raises aborts the report
RECURSIVE TabulationRows(_, _)
TabulationRows(which, builds) ==
    IF builds = <<>> THEN Ok(<<>>)
    ELSE LET first == IF which = "jen_build_history"
                      THEN prep_for_tabulation(Head(builds))
                      ELSE BuildInfo_tabulation_line(Head(builds)) IN
         IF first.exc # "" THEN Raise(first.exc)
         ELSE LET rest == TabulationRows(which, Tail(builds)) IN
              IF rest.exc # "" THEN Raise(rest.exc)
              ELSE Ok(<<RenderRow(Get(first.val))>> \o Get(rest.val))

report_build_history(which, builds) == TabulationRows(which, builds)

(***************************************************************************)
(* The fetcher.  requests.get either raises or answers with a status code  *)
(* and a body; the three programs each have their own get_url.             *)
(***************************************************************************)
\* jen_build_history.py
get_url_build_history(url, outcome) ==
    IF outcome.kind = "ConnectTimeout"
    THEN [exc |-> "", val |-> Some(EmptyJson), out |-> <<"Timed out: " \o UrlStr(url)>>]
    ELSE IF outcome.kind # "response"
    THEN [exc |-> outcome.kind, val |-> None, out |-> <<>>]
    ELSE IF outcome.code # 200
    THEN IF outcome.code \notin DOMAIN responses
         THEN [exc |-> "KeyError", val |-> None, out |-> <<>>]
         ELSE [exc |-> "", val |-> Some(EmptyJson),
               out |-> <<ToString(outcome.code) \o " " \o responses[outcome.code]
                         \o ": " \o UrlStr(url)>>]
    ELSE [exc |-> "", val |-> Some(outcome.body), out |-> <<>>]

\* jen_job_history.py: the diagnostic of a non-200 answer drops the query string
get_url_job_history(url, outcome) ==
    IF outcome.kind = "ConnectTimeout"
    THEN [exc |-> "", val |-> Some(EmptyJson), out |-> <<"Timed out: " \o UrlStr(url)>>]
    ELSE IF outcome.kind # "response"
    THEN [exc |-> outcome.kind, val |-> None, out |-> <<>>]
    ELSE IF outcome.code # 200
    THEN IF outcome.code \notin DOMAIN responses
         THEN [exc |-> "KeyError", val |-> None, out |-> <<>>]
         ELSE [exc |-> "", val |-> Some(EmptyJson),
               out |-> <<ToString(outcome.code) \o " " \o responses[outcome.code]
                         \o ": " \o url.path>>]
    ELSE [exc |-> "", val |-> Some(outcome.body), out |-> <<>>]

\* get_url of the comparison tool degrading like the history tools' get_url: a
\* failed fetch is reported and an empty document returned instead of sys.exit(1)
get_url_compare_degrading(url, outcome) ==
    IF outcome.kind = "ConnectTimeout"
    THEN [exc |-> "", val |-> Some(<<>>), out |-> <<"Timed out: " \o UrlStr(url)>>]
    ELSE IF outcome.kind # "response"
    THEN [exc |-> outcome.kind, val |-> None, out |-> <<>>]
    ELSE IF outcome.code # 200
    THEN IF outcome.code \notin DOMAIN responses
         THEN [exc |-> "KeyError", val |-> None, out |-> <<>>]
         ELSE [exc |-> "", val |-> Some(<<>>),
               out |-> <<ToString(outcome.code) \o " " \o responses[outcome.code]
                         \o ": " \o UrlStr(url)>>]
    ELSE [exc |-> "", val |-> Some(outcome.body), out |-> <<>>]

\* jen_compare.py: sys.exit(1) raises SystemExit
get_url_compare(url, outcome) ==
    IF outcome.kind = "ConnectTimeout"
    THEN [exc |-> "SystemExit", val |-> None, out |-> <<"Timed out: " \o UrlStr(url)>>]
    ELSE IF outcome.kind # "response"
    THEN [exc |-> outcome.kind, val |-> None, out |-> <<>>]
    ELSE IF outcome.code # 200
    THEN IF outcome.code \notin DOMAIN responses
         THEN [exc |-> "KeyError", val |-> None, out |-> <<>>]
         ELSE [exc |-> "SystemExit", val |-> None,
               out |-> <<ToString(outcome.code) \o " " \o responses[outcome.code]
                         \o ": " \o UrlStr(url)>>]
    ELSE [exc |-> "", val |-> Some(outcome.body), out |-> <<>>]

\* what requests.get can do other than answer
FetchFailures == {[kind |-> "ConnectTimeout"], [kind |-> "ReadTimeout"],
                  [kind |-> "ConnectionError"]}

(***************************************************************************)
(* The server's answers to the history tools.                              *)
(***************************************************************************)
Sha == "0123456789abcdef"

NonGitAction == [_class |-> Some("hudson.model.CauseAction"), lastBuiltRevision |-> None]
EmptyAction == [_class |-> None, lastBuiltRevision |-> None]
GitAction(lbr) == [_class |-> Some(GitBuildData), lastBuiltRevision |-> lbr]

FullRevision == [SHA1 |-> Some(Sha),
                 branch |-> Some(<<[name |-> Some("refs/remotes/origin/main")]>>)]

LastBuiltRevisions ==
    {FullRevision,
     [SHA1 |-> Some(Sha), branch |-> Some(<<>>)],
     [SHA1 |-> Some(Sha), branch |-> None],
     [SHA1 |-> Some(Sha), branch |-> Some(<<[name |-> None]>>)],
     [SHA1 |-> None, branch |-> Some(<<[name |-> Some("detached")]>>)]}

ActionLists ==
    {<<>>, <<EmptyAction>>, <<NonGitAction>>}
    \cup {<<GitAction(l)>> : l \in Opt(LastBuiltRevisions)}
    \cup {<<NonGitAction, GitAction(Some(FullRevision))>>,
          <<GitAction(None), GitAction(Some(FullRevision))>>}

\* every combination of present and absent keys of one build object
BuildObjects ==
    [number : Opt({5}),
     building : Opt(BOOLEAN),
     timestamp : Opt({[secs |-> 1700000000, ms |-> 0]}),
     duration : Opt({0, 65000, 125000}),
     estimatedDuration : Opt({90000}),
     actions : Opt(ActionLists)]

\* the builds that multi-build answers are made of
SampleBuilds ==
    {[number |-> Some(5), building |-> Some(FALSE),
      timestamp |-> Some([secs |-> 1700000000, ms |-> 0]), duration |-> Some(65000),
      estimatedDuration |-> None, actions |-> Some(<<>>)],
     [number |-> Some(6), building |-> Some(TRUE),
      timestamp |-> Some([secs |-> 1700000600, ms |-> 250]), duration |-> Some(0),
      estimatedDuration |-> Some(90000),
      actions |-> Some(<<GitAction(Some(FullRevision))>>)],
     [number |-> Some(7), building |-> None, timestamp |-> None, duration |-> None,
      estimatedDuration |-> None, actions |-> None],
     [number |-> None, building |-> Some(FALSE), timestamp |-> None,
      duration |-> Some(125000), estimatedDuration |-> None,
      actions |-> Some(<<NonGitAction>>)]}

BuildLists ==
    {<<>>} \cup {<<b>> : b \in BuildObjects}
    \cup UNION {[1..n -> SampleBuilds] : n \in 2..MaxBuilds}

JobClass == "hudson.model.FreeStyleProject"

NoBuildsJson == [_class |-> Some(JobClass), builds |-> Some(<<>>)]

HistoryBodies ==
    {EmptyJson, [_class |-> Some(JobClass), builds |-> None]}
    \cup {[_class |-> Some(JobClass), builds |-> Some(l)] : l \in BuildLists}

HistoryOutcomes ==
    FetchFailures
    \cup {[kind |-> "response", code |-> c, body |-> NoBuildsJson] : c \in StatusCodes \ {200}}
    \cup {[kind |-> "response", code |-> 200, body |-> b] : b \in HistoryBodies}

Job == "main"

(***************************************************************************)
(* The history tools: main() -> get_and_report_build_history.              *)
(***************************************************************************)
\* get_build_history up to the return of get_url
HistoryGetUrl ==
    /\ tool \in HistoryTools
    /\ pc = "get_url"
    /\ \E outcome \in HistoryOutcomes :
         LET api_url == get_job_api_url(Base, Job)
             r == IF tool = "jen_build_history"
                  THEN get_url_build_history(api_url, outcome)
                  ELSE get_url_job_history(api_url, outcome)
         IN /\ fetched' = Append(fetched, UrlStr(api_url))
            /\ answers' = Append(answers, outcome)
            /\ stdout' = stdout \o r.out
            /\ IF r.exc # ""
               THEN /\ pc' = "exit"
                    /\ exception' = r.exc
                    /\ exit_code' = Some(1)
                    /\ result' = result
               ELSE /\ pc' = "parse"
                    /\ result' = r.val
                    /\ UNCHANGED <<exception, exit_code>>
    /\ UNCHANGED <<tool, build_history, table, compare_vars, harness_vars>>

\* the rest of get_build_history
HistoryParse ==
    /\ tool \in HistoryTools
    /\ pc = "parse"
    /\ LET r == get_build_history(Get(result))
       IN IF r.exc # ""
          THEN /\ pc' = "exit"
               /\ exception' = r.exc
               /\ exit_code' = Some(1)
               /\ build_history' = build_history
          ELSE /\ pc' = "report"
               /\ build_history' = r.val
               /\ UNCHANGED <<exception, exit_code>>
    /\ UNCHANGED <<tool, stdout, fetched, answers, result, table, compare_vars, harness_vars>>

\* get_and_report_build_history after get_build_history returned
HistoryReport ==
    /\ tool \in HistoryTools
    /\ pc = "report"
    /\ pc' = "exit"
    /\ IF Get(build_history) = <<>>
       THEN /\ exit_code' = Some(0)
            /\ UNCHANGED <<exception, table>>
       ELSE LET r == report_build_history(tool, Get(build_history))
            IN IF r.exc # ""
               THEN /\ exception' = r.exc
                    /\ exit_code' = Some(1)
                    /\ table' = table
               ELSE /\ table' = r.val
                    /\ exit_code' = Some(0)
                    /\ exception' = exception
    /\ UNCHANGED <<tool, stdout, fetched, answers, result, build_history, compare_vars,
                   harness_vars>>

(***************************************************************************)
(* The comparison tool.                                                    *)
(***************************************************************************)
\* the characters of the names compared, in code point order
CodePoints == "0123456789ABCDEFGHIJKLMNOPQRSTUVWXYZ_abcdefghijklmnopqrstuvwxyz"

Ord(c) == CHOOSE i \in 1..Len(CodePoints) : SubSeq(CodePoints, i, i) = c

\* a < b for Python strings
RECURSIVE StrLess(_, _)
StrLess(a, b) ==
    IF b = "" THEN FALSE
    ELSE IF a = "" THEN TRUE
    ELSE LET x == Ord(SubSeq(a, 1, 1))
             y == Ord(SubSeq(b, 1, 1))
         IN IF x # y THEN x < y
            ELSE StrLess(SubSeq(a, 2, Len(a)), SubSeq(b, 2, Len(b)))

\* f < g for (className, name) tuples
TupleLess(f, g) == StrLess(f[1], g[1]) \/ (f[1] = g[1] /\ StrLess(f[2], g[2]))

\* sorted(failures)
RECURSIVE sorted(_)
sorted(failures) ==
    IF failures = {} THEN <<>>
    ELSE LET least == CHOOSE f \in failures :
                          \A g \in failures \ {f} : TupleLess(f, g)
         IN <<least>> \o sorted(failures \ {least})

\* fail_only_left = sorted(left_fails - right_fails) without the subtraction
fail_only_unsubtracted(these, those) == sorted(these)

\* sorted(left_fails - right_fails), sorted(right_fails - left_fails)
fail_only(these, those) == sorted(these \ those)

\* the children of the document's root element, in document order
RECURSIVE CaseTuples(_)
CaseTuples(tree) ==
    IF tree = <<>> THEN {}
    ELSE (IF Head(tree).tag = "case"
          THEN {<<Head(tree).className, Head(tree).name>>} ELSE {})
         \cup CaseTuples(Tail(tree))

parse_fails_xml(fails_xml) == CaseTuples(fails_xml)

\* click.style(text, fg=colour), and style_monochrome
style(mono, text, fg) ==
    IF mono THEN text
    ELSE LET code == CASE fg = "red" -> "31" [] fg = "green" -> "32"
                       [] fg = "yellow" -> "33"
         IN "ESC[" \o code \o "m" \o text \o "ESC[0m"

failure_name(class_name, test_name) == class_name \o "." \o test_name

\* the lines list_side_failures prints
list_side_failures(mono, failures, left_fail, right_fail) ==
    LET pretty == style(mono, "===", "yellow")
        failed == style(mono, "failed", "red")
        passed == style(mono, "passed", "green")
        side_words(side, failure) == side \o " " \o (IF failure THEN failed ELSE passed)
        msg == pretty \o " " \o side_words("left", left_fail) \o ", " \o
               side_words("right", right_fail) \o ": " \o ToString(Len(failures)) \o
               " " \o pretty
    IN <<msg>> \o [i \in 1..Len(failures) |-> failure_name(failures[i][1], failures[i][2])]

TestIds == {<<"A", "t1">>, <<"B", "t2">>}
Statuses == {"FAILED", "REGRESSION", "PASSED"}

Elements ==
    {[tag |-> "case", className |-> t[1], name |-> t[2], status |-> st] :
        t \in TestIds, st \in Statuses}
    \cup {[tag |-> "suite", className |-> "A", name |-> "t1", status |-> "FAILED"]}

Documents == UNION {[1..n -> Elements] : n \in 0..MaxCases}

CompareOutcomes ==
    FetchFailures
    \cup {[kind |-> "response", code |-> c, body |-> <<>>] : c \in StatusCodes \ {200}}
    \cup {[kind |-> "response", code |-> 200, body |-> d] : d \in Documents}

Left == "main"
Right == "feature"

\* get_and_report_comparison up to the return of get_fails(base, left, timeout)
CompareFetchLeft ==
    /\ tool = CompareTool
    /\ pc = "left"
    /\ \E outcome \in CompareOutcomes :
         LET url == get_fails_api_url(Base, Left)
             r == get_url_compare(url, outcome)
         IN /\ fetched' = Append(fetched, UrlStr(url))
            /\ answers' = Append(answers, outcome)
            /\ stdout' = stdout \o <<"Fetching failures from left branch">> \o r.out
            /\ IF r.exc # ""
               THEN /\ pc' = "exit"
                    /\ exception' = r.exc
                    /\ exit_code' = Some(1)
                    /\ UNCHANGED <<left_xml, left_fails>>
               ELSE /\ pc' = "right"
                    /\ left_xml' = r.val
                    /\ left_fails' = Some(parse_fails_xml(Get(r.val)))
                    /\ UNCHANGED <<exception, exit_code>>
    /\ UNCHANGED <<tool, monochrome, right_xml, right_fails, fail_only_left,
                   fail_only_right, history_vars, harness_vars>>

\* ... up to the return of get_fails(base, right, timeout)
CompareFetchRight ==
    /\ tool = CompareTool
    /\ pc = "right"
    /\ \E outcome \in CompareOutcomes :
         LET url == get_fails_api_url(Base, Right)
             r == get_url_compare(url, outcome)
         IN /\ fetched' = Append(fetched, UrlStr(url))
            /\ answers' = Append(answers, outcome)
            /\ stdout' = stdout \o <<"Fetching failures from right branch">> \o r.out
            /\ IF r.exc # ""
               THEN /\ pc' = "exit"
                    /\ exception' = r.exc
                    /\ exit_code' = Some(1)
                    /\ UNCHANGED <<right_xml, right_fails>>
               ELSE /\ pc' = "compare"
                    /\ right_xml' = r.val
                    /\ right_fails' = Some(parse_fails_xml(Get(r.val)))
                    /\ UNCHANGED <<exception, exit_code>>
    /\ UNCHANGED <<tool, monochrome, left_xml, left_fails, fail_only_left,
                   fail_only_right, history_vars, harness_vars>>

\* ... the differences and the report
CompareReport ==
    /\ tool = CompareTool
    /\ pc = "compare"
    /\ LET only_left == fail_only(Get(left_fails), Get(right_fails))
           only_right == fail_only(Get(right_fails), Get(left_fails))
       IN /\ fail_only_left' = Some(only_left)
          /\ fail_only_right' = Some(only_right)
          /\ stdout' = stdout \o
                <<"Failed in the left branch..: " \o ToString(Cardinality(Get(left_fails))),
                  "Failed in the right branch.: " \o ToString(Cardinality(Get(right_fails))),
                  "">> \o
                list_side_failures(monochrome, only_left, TRUE, FALSE) \o <<"">> \o
                list_side_failures(monochrome, only_right, FALSE, TRUE)
    /\ pc' = "exit"
    /\ exit_code' = Some(0)
    /\ UNCHANGED <<tool, fetched, answers, exception, monochrome, left_xml, right_xml,
                   left_fails, right_fails, history_vars, harness_vars>>

(***************************************************************************)
(* Harnesses for the pure functions.                                       *)
(***************************************************************************)
Fragments == {"refs/", "remotes/", "origin/", "main", "detached",
              "re", "fs/", "ori", "gin/"}

RECURSIVE Concat(_)
Concat(parts) == IF parts = <<>> THEN "" ELSE Head(parts) \o Concat(Tail(parts))

RawBranchNames == {Concat(parts) : parts \in UNION {[1..n -> Fragments] : n \in 0..MaxFragments}}

\* branch_name = normalise_branch_name(branch_name)
Normalise ==
    /\ tool = "normalise_branch_name"
    /\ Len(branch_trail) < MaxApplications
    /\ branch_trail' = Append(branch_trail, branch_name)
    /\ branch_name' = normalise_branch_name(branch_name)
    /\ UNCHANGED <<tool, pc, stdout, fetched, answers, exit_code, exception,
                   history_vars, compare_vars, raw_duration, duration_cell>>

MsRemainders == {0, 1, 500, 999}

RawDurations == {sec * 1000 + ms : sec \in 0..MaxSeconds, ms \in MsRemainders}

\* jen_build_history.py: the duration cell of a build that is not building
FormatDuration ==
    /\ tool = "jen_build_history"
    /\ duration_cell = None
    /\ duration_cell' = Some(format_duration(raw_duration))
    /\ UNCHANGED <<tool, pc, stdout, fetched, answers, exit_code, exception,
                   history_vars, compare_vars, branch_name, branch_trail, raw_duration>>

\* jen_job_history.py: BuildInfo.duration_str of a build that is not building
DurationStr ==
    /\ tool = "jen_job_history"
    /\ duration_cell = None
    /\ duration_cell' = BuildInfo_duration_str([duration |-> Some(raw_duration),
                                                building |-> Some(FALSE)])
    /\ UNCHANGED <<tool, pc, stdout, fetched, answers, exit_code, exception,
                   history_vars, compare_vars, branch_name, branch_trail, raw_duration>>

IdleCompare ==
    /\ monochrome = FALSE
    /\ left_xml = None /\ right_xml = None
    /\ left_fails = None /\ right_fails = None
    /\ fail_only_left = None /\ fail_only_right = None

IdleHistory == result = None /\ build_history = None /\ table = None

IdleHarness ==
    /\ branch_name = "" /\ branch_trail = <<>>
    /\ raw_duration = 0 /\ duration_cell = None

Started ==
    /\ stdout = <<>> /\ fetched = <<>> /\ answers = <<>>
    /\ exit_code = None /\ exception = ""

Init ==
    /\ tool \in HistoryTools
    /\ pc = "get_url"
    /\ Started /\ IdleHistory /\ IdleCompare /\ IdleHarness

Next == HistoryGetUrl \/ HistoryParse \/ HistoryReport

Spec == Init /\ [][Next]_vars

InitCompare ==
    /\ tool = CompareTool
    /\ pc = "left"
    /\ monochrome \in BOOLEAN
    /\ left_xml = None /\ right_xml = None
    /\ left_fails = None /\ right_fails = None
    /\ fail_only_left = None /\ fail_only_right = None
    /\ Started /\ IdleHistory /\ IdleHarness

NextCompare == CompareFetchLeft \/ CompareFetchRight \/ CompareReport

SpecCompare == InitCompare /\ [][NextCompare]_vars

InitNormalise ==
    /\ tool = "normalise_branch_name"
    /\ pc = "call"
    /\ branch_name \in RawBranchNames
    /\ branch_trail = <<>>
    /\ raw_duration = 0 /\ duration_cell = None
    /\ Started /\ IdleHistory /\ IdleCompare

NextNormalise == Normalise

SpecNormalise == InitNormalise /\ [][NextNormalise]_vars

InitDuration ==
    /\ tool \in HistoryTools
    /\ pc = "call"
    /\ raw_duration \in RawDurations
    /\ duration_cell = None
    /\ branch_name = "" /\ branch_trail = <<>>
    /\ Started /\ IdleHistory /\ IdleCompare

NextDuration == FormatDuration \/ DurationStr

SpecDuration == InitDuration /\ [][NextDuration]_vars

(***************************************************************************)
(* Properties.                                                             *)
(***************************************************************************)
\* a history tool got a 200 answer whose body carries a builds array
GotBuilds ==
    /\ tool \in HistoryTools
    /\ Len(answers) = 1
    /\ answers[1].kind = "response"
    /\ answers[1].code = 200
    /\ answers[1].body.builds # None

ServedBuilds == Get(answers[1].body.builds)

Parsed == pc \in {"report", "exit"}

StartsWith(s, p) == OccursAt(s, p, 1)

NoGitBuildData(build) ==
    \/ build.actions = None
    \/ \A i \in 1..Len(Get(build.actions)) :
          Get(build.actions)[i]._class # Some(GitBuildData)

\* C1: every served build without an actions key, or without a git build-data
\* action, is parsed without raising into a record whose revision and branch
\* name are both None.
C1_NoBuildDataYieldsNone ==
    (GotBuilds /\ Parsed) =>
        \A i \in 1..Len(ServedBuilds) :
            NoGitBuildData(ServedBuilds[i]) =>
                /\ build_history # None
                /\ Len(Get(build_history)) >= i
                /\ Get(build_history)[i].revision = None
                /\ Get(build_history)[i].branch_name = None

\* C2: a run whose fetch timed out (connect or read) ends, in a history tool,
\* with "Timed out: {url}" printed, an empty build list, no report and exit
\* status 0; in the comparison tool with "Timed out: {url}" printed and exit
\* status 1 by sys.exit; no timeout leaves main() as an exception.
C2_TimeoutsHandled ==
    (/\ pc = "exit"
     /\ answers # <<>>
     /\ answers[Len(answers)].kind \in {"ConnectTimeout", "ReadTimeout"}) =>
        /\ stdout # <<>>
        /\ stdout[Len(stdout)] = "Timed out: " \o fetched[Len(fetched)]
        /\ IF tool \in HistoryTools
           THEN /\ build_history = Some(<<>>)
                /\ table = None
                /\ exit_code = Some(0)
                /\ exception = ""
           ELSE /\ exit_code = Some(1)
                /\ exception = "SystemExit"

RECURSIVE FailedCases(_)
FailedCases(tree) ==
    IF tree = <<>> THEN {}
    ELSE (IF Head(tree).tag = "case" /\ Head(tree).status \in {"FAILED", "REGRESSION"}
          THEN {<<Head(tree).className, Head(tree).name>>} ELSE {})
         \cup FailedCases(Tail(tree))

\* C3: the failure set extracted from a test report holds exactly the
\* (className, name) pairs of the case elements whose status is FAILED or
\* REGRESSION.
C3_OnlyFailedOrRegression ==
    /\ left_fails # None => Get(left_fails) = FailedCases(Get(left_xml))
    /\ right_fails # None => Get(right_fails) = FailedCases(Get(right_xml))

Patterns == {"refs/", "remotes/", "origin/"}

\* every occurrence of "refs/", "remotes/" or "origin/" in s is a whole path
\* component: it starts the string or follows a "/"
WholeComponents(s) ==
    \A p \in Patterns : \A i \in 2..Len(s) :
        OccursAt(s, p, i) => SubSeq(s, i - 1, i - 1) = "/"

\* C4 as stated: normalising a normalised branch name changes nothing, whatever
\* the raw name.
C4_Idempotent ==
    Len(branch_trail) >= 2 => branch_name = branch_trail[2]

\* C4 as amended: normalising a normalised branch name changes nothing when, in
\* the raw name, "refs/", "remotes/" and "origin/" occur only as whole path
\* components; "refs/remotes/origin/main" becomes "main" and a name that
\* strips to "detached" becomes "** detached **".
C4_IdempotentOnWholeComponents ==
    /\ (Len(branch_trail) >= 2 /\ WholeComponents(branch_trail[1])) =>
           branch_name = branch_trail[2]
    /\ (Len(branch_trail) = 1 /\ branch_trail[1] = "refs/remotes/origin/main") =>
           branch_name = "main"
    /\ (Len(branch_trail) = 1 /\ branch_trail[1] = "refs/origin/detached") =>
           branch_name = "** detached **"

C4_Witness ==
    /\ Len(branch_trail) = 2
    /\ branch_trail[1] = "refs/remotes/origin/main"
    /\ branch_trail[2] = "main"
    /\ branch_name = "main"

\* C5: the duration of each parsed record is estimatedDuration when building is
\* true and duration is 0, and the raw duration in every other case (None for
\* an absent key).
C5_DurationDerivation ==
    (GotBuilds /\ build_history # None) =>
        /\ Len(Get(build_history)) = Len(ServedBuilds)
        /\ \A i \in 1..Len(ServedBuilds) :
              LET build == ServedBuilds[i]
                  record == Get(build_history)[i]
              IN /\ (build.building = Some(TRUE) /\ build.duration = Some(0)) =>
                        record.duration = build.estimatedDuration
                 /\ ~(build.building = Some(TRUE) /\ build.duration = Some(0)) =>
                        record.duration = build.duration

C5_Witness ==
    /\ GotBuilds
    /\ build_history # None
    /\ \E i \in 1..Len(ServedBuilds) :
          /\ ServedBuilds[i].building = Some(TRUE)
          /\ ServedBuilds[i].duration = Some(0)
          /\ Get(build_history)[i].duration = Some(90000)

Range(seq) == {seq[i] : i \in 1..Len(seq)}

\* C6: onlyLeft = A - B and onlyRight = B - A are disjoint, hold no element of
\* A \cap B, and together with A \cap B make up A \cup B; A = {("A","t1")},
\* B = {("A","t1"),("B","t2")} gives onlyLeft = {} and onlyRight = {("B","t2")}.
C6_Differences ==
    fail_only_left # None =>
        LET A == Get(left_fails)
            B == Get(right_fails)
            onlyLeft == Range(Get(fail_only_left))
            onlyRight == Range(Get(fail_only_right))
        IN /\ onlyLeft = A \ B
           /\ onlyRight = B \ A
           /\ onlyLeft \cap onlyRight = {}
           /\ onlyLeft \cap (A \cap B) = {}
           /\ onlyRight \cap (A \cap B) = {}
           /\ onlyLeft \cup onlyRight \cup (A \cap B) = A \cup B
           /\ (A = {<<"A", "t1">>} /\ B = {<<"A", "t1">>, <<"B", "t2">>}) =>
                  /\ Get(fail_only_left) = <<>>
                  /\ Get(fail_only_right) = << <<"B", "t2">> >>

C6_Witness ==
    /\ left_fails = Some({<<"A", "t1">>})
    /\ right_fails = Some({<<"A", "t1">>, <<"B", "t2">>})
    /\ fail_only_left = Some(<<>>)
    /\ fail_only_right = Some(<< <<"B", "t2">> >>)

\* the row printed for a record, as C7 wants it
RowAsClaimed(record, row) ==
    /\ \A c \in 1..Len(row) : row[c] # "None"
    /\ (record.number = None /\ record.building # Some(TRUE)) => row[1] = ""
    /\ record.timestamp = None => row[2] = ""
    /\ (record.duration = None /\ record.building # Some(TRUE)) => row[3] = ""
    /\ record.revision = None => row[4] = ""
    /\ record.branch_name = None => row[5] = ""
    /\ record.building = Some(TRUE) => StartsWith(row[1], "* ") /\ StartsWith(row[3], "?")

\* C7: the reporter renders every record as a row without raising: an absent
\* field gives an empty cell, and for a record that is building the number
\* cell starts with "* " and the duration cell with "?".
C7_EveryRecordRendered ==
    (/\ tool \in HistoryTools
     /\ pc = "exit"
     /\ build_history # None
     /\ Get(build_history) # <<>>) =>
        /\ exception = ""
        /\ table # None
        /\ Len(Get(table)) = Len(Get(build_history))
        /\ \A i \in 1..Len(Get(build_history)) :
              RowAsClaimed(Get(build_history)[i], Get(table)[i])

DigitValue(c) == (CHOOSE i \in 1..10 : SubSeq("0123456789", i, i) = c) - 1

IsDigit(c) == \E i \in 1..10 : SubSeq("0123456789", i, i) = c

AllDigits(s) == s # "" /\ \A i \in 1..Len(s) : IsDigit(SubSeq(s, i, i))

RECURSIVE ParseNat(_)
ParseNat(s) ==
    IF s = "" THEN 0
    ELSE 10 * ParseNat(SubSeq(s, 1, Len(s) - 1)) + DigitValue(SubSeq(s, Len(s), Len(s)))

\* C8: a duration of d ms is formatted "{m}m{ss}s": ss is two digits,
\* 0 <= ss <= 59, m = (d div 1000) div 60 without leading zeros and
\* 60 * m + ss = d div 1000; 125000 gives "2m05s", 65000 "1m05s", 0 "0m00s".
C8_DurationFormat ==
    duration_cell # None =>
        LET text == Get(duration_cell)
            n == Len(text)
            minutes == SubSeq(text, 1, n - 4)
            seconds == SubSeq(text, n - 2, n - 1)
        IN /\ n >= 5
           /\ SubSeq(text, n - 3, n - 3) = "m"
           /\ SubSeq(text, n, n) = "s"
           /\ AllDigits(minutes) /\ AllDigits(seconds)
           /\ Len(minutes) > 1 => ~StartsWith(minutes, "0")
           /\ ParseNat(seconds) <= 59
           /\ ParseNat(minutes) = (raw_duration \div 1000) \div 60
           /\ 60 * ParseNat(minutes) + ParseNat(seconds) = raw_duration \div 1000
           /\ raw_duration = 125000 => text = "2m05s"
           /\ raw_duration = 65000 => text = "1m05s"
           /\ raw_duration = 0 => text = "0m00s"

C8_Witness ==
    /\ raw_duration = 125000
    /\ duration_cell = Some("2m05s")

\* C9: after a successful build-list answer the list of records has one record
\* per element of the builds array, in the same order, whatever keys the
\* elements lack.
C9_OneRecordPerBuild ==
    (GotBuilds /\ Parsed) =>
        /\ build_history # None
        /\ Len(Get(build_history)) = Len(ServedBuilds)
        /\ \A i \in 1..Len(ServedBuilds) :
              Get(build_history)[i].number = ServedBuilds[i].number

\* C10: an answer with a non-2xx status makes the fetcher print
\* "{code} {reason}: {url}" and return an empty result (history tools) or exit
\* with status 1 (comparison tool); an answer with a 2xx status is returned to
\* the caller as its body, with nothing printed.
C10_StatusClassification ==
    (/\ answers # <<>>
     /\ answers[Len(answers)].kind = "response"
     /\ pc # "get_url") =>
        LET answer == answers[Len(answers)]
            url == fetched[Len(fetched)]
        IN IF answer.code \in 200..299
           THEN IF tool \in HistoryTools
                THEN stdout = <<>> /\ result = Some(answer.body)
                ELSE exception = "" /\ ~StartsWith(stdout[Len(stdout)], ToString(answer.code))
           ELSE /\ answer.code \in DOMAIN responses
                /\ stdout # <<>>
                /\ stdout[Len(stdout)] = ToString(answer.code) \o " " \o
                                         responses[answer.code] \o ": " \o url
                /\ IF tool \in HistoryTools
                   THEN result = Some(EmptyJson) /\ exception = ""
                   ELSE exit_code = Some(1) /\ exception = "SystemExit"

\* a line of the comparison report: a failure count or a section header (which
\* starts with the "===" delimiter, coloured or plain)
IsReportLine(line) ==
    \/ StartsWith(line, "Failed in the")
    \/ StartsWith(line, style(TRUE, "===", "yellow"))
    \/ StartsWith(line, style(FALSE, "===", "yellow"))

Succeeded(answer) == answer.kind = "response" /\ answer.code = 200

LeftUrl == UrlStr(get_fails_api_url(Base, Left))
RightUrl == UrlStr(get_fails_api_url(Base, Right))

\* C11: in the comparison tool the left fetch is the first request and the right
\* fetch the second, issued only once the left fetch has succeeded; counts and
\* sections are printed only once both fetches have succeeded, after both
\* "Fetching" lines; a failed left fetch (timeout or non-200) ends the process
\* with exit status 1, one request made and no count or section printed.
C11_FetchesOrdered ==
    tool = CompareTool =>
        /\ Len(fetched) = Len(answers)
        /\ Len(fetched) <= 2
        /\ Len(fetched) >= 1 => fetched[1] = LeftUrl
        /\ Len(fetched) = 2 =>
              /\ fetched[2] = RightUrl
              /\ Succeeded(answers[1])
              /\ left_fails # None
        /\ \A i \in 1..Len(stdout) :
              IsReportLine(stdout[i]) =>
                  /\ Len(answers) = 2
                  /\ Succeeded(answers[1]) /\ Succeeded(answers[2])
                  /\ left_fails # None /\ right_fails # None
                  /\ \E j \in 1..(i - 1) : stdout[j] = "Fetching failures from right branch"
        /\ (Len(answers) >= 1 /\ ~Succeeded(answers[1])) =>
              /\ pc = "exit"
              /\ exit_code = Some(1)
              /\ Len(fetched) = 1
              /\ right_fails = None
              /\ \A i \in 1..Len(stdout) :
                    /\ ~IsReportLine(stdout[i])
                    /\ stdout[i] # "Fetching failures from right branch"

\* a complete run: both fetches succeeded, in order, and the report was printed
C11_Witness ==
    /\ tool = CompareTool
    /\ pc = "exit"
    /\ exit_code = Some(0)
    /\ fetched = <<LeftUrl, RightUrl>>
    /\ Succeeded(answers[1]) /\ Succeeded(answers[2])
    /\ stdout[1] = "Fetching failures from left branch"
    /\ stdout[2] = "Fetching failures from right branch"
    /\ IsReportLine(stdout[3])
    /\ Get(left_fails) # Get(right_fails)

====
